---- MODULE Spec2Model ----
(***************************************************************************)
(* Model of src/app.py: the /generate route (generate_images) and the      *)
(* three pipeline stages it calls in sequence, analyze_product_image,      *)
(* generate_image_prompts and generate_images_with_gemini.                 *)
(*                                                                         *)
(* User-facing messages of the source are Korean string literals; the      *)
(* model carries an English gloss of each, next to the line it comes from. *)
(* A model reply text is a sequence of tokens (a fence, the json tag,      *)
(* whitespace, one payload), so that stripping the fences and parsing is   *)
(* computed and not assumed.                                               *)
(***************************************************************************)
EXTENDS Integers, Sequences, FiniteSets, TLC

(* ------------------------------ bounds -------------------------------- *)

\* largest num_images a request (or a direct call) supplies
MaxRequested == 3

\* largest number of items in a "prompts" list the text model replies with
MaxReplyItems == 3

(* ------------------------- program constants -------------------------- *)

\* app.py:404  min(int(...), 10)
MaxImages == 10

Fields ==
    {"product_name", "category", "key_features", "color", "style",
     "target_audience", "use_cases", "description"}

\* the JSON value null (Python None)
NULL == "<null>"

Min(a, b) == IF a <= b THEN a ELSE b

Max(a, b) == IF a >= b THEN a ELSE b

(* --------------------------- Python helpers --------------------------- *)

\* s[:n] for a list s: n >= 0 keeps the first n items, n < 0 drops the last -n
SliceTo(s, n) ==
    IF n >= 0 THEN SubSeq(s, 1, Min(n, Len(s)))
    ELSE SubSeq(s, 1, Max(Len(s) + n, 0))

\* s[n:] for a token sequence
SliceFrom(s, n) == SubSeq(s, n + 1, Len(s))

\* exception classes that `except ValueError` catches
IsValueError(type) == type \in {"ValueError", "JSONDecodeError"}

Exc(type, msg) == [type |-> type, msg |-> msg]

NoExc == Exc("", "")

(* ------------------------- reply texts (tokens) ----------------------- *)

\* the markdown fence marker (three backquote characters)
FENCE == "<fence>"

TAG == "json"

WS == "\n"

RECURSIVE lstrip(_)
lstrip(t) == IF t # <<>> /\ Head(t) = WS THEN lstrip(Tail(t)) ELSE t

RECURSIVE rstrip(_)
rstrip(t) ==
    IF t # <<>> /\ t[Len(t)] = WS THEN rstrip(SubSeq(t, 1, Len(t) - 1)) ELSE t

\* str.strip()
strip(t) == rstrip(lstrip(t))

startswith_fence_json(t) == Len(t) >= 2 /\ t[1] = FENCE /\ t[2] = TAG

startswith_fence(t) == Len(t) >= 1 /\ t[1] = FENCE

endswith_fence(t) == Len(t) >= 1 /\ t[Len(t)] = FENCE

\* app.py:101-108 and 178-184: the three successive fence removals
strip_fences(text) ==
    LET t0 == strip(text)
        t1 == IF startswith_fence_json(t0) THEN SliceFrom(t0, 2) ELSE t0
        t2 == IF startswith_fence(t1) THEN SliceFrom(t1, 1) ELSE t1
        t3 == IF endswith_fence(t2) THEN SubSeq(t2, 1, Len(t2) - 1) ELSE t2
    IN  strip(t3)

RECURSIVE Render(_)
\* the characters of a text
Render(t) == IF t = <<>> THEN "" ELSE Head(t) \o Render(Tail(t))

\* the fence styles a reply may come in around its payload p
Wrappings(p) ==
    { <<p>>,
      <<FENCE, TAG, WS, p, WS, FENCE>>,
      <<FENCE, WS, p, WS, FENCE, WS>>,
      <<WS, FENCE, TAG, WS, p>> }

(* ------------------------------ JSON ---------------------------------- *)

\* a parsed JSON value is [type |-> "object", obj |-> record] or
\* [type |-> "array", items |-> sequence]; a key an object does not carry is
\* not in DOMAIN obj

FullAnalysis ==
    [product_name |-> "Mug", category |-> "Kitchen",
     key_features |-> "[sturdy, light]", color |-> "white", style |-> "modern",
     target_audience |-> "everyone", use_cases |-> "[coffee, tea]",
     description |-> "A white mug."]

\* the i-th scene a well-formed reply of the text model carries
Scene(i) ==
    [title |-> "scene " \o ToString(i), description |-> "shot " \o ToString(i)]

Scenes(k) == [i \in 1..k |-> Scene(i)]

\* payloads the vision model may reply with
AnalysisPayloads ==
    {"A_full", "A_nodesc", "A_nullcolor", "A_noname", "A_nullfeat", "A_list"}

\* payloads the text model may reply with
PromptPayloads ==
    {"P_" \o ToString(k) : k \in 0..MaxReplyItems}
        \cup {"P_notitle", "P_emptytitle", "P_nodesc", "P_nokey", "P_list"}

\* a payload that is not JSON
JUNK == "not json"

JsonTable(p) ==
    CASE p = "A_full" -> [type |-> "object", obj |-> FullAnalysis]
      [] p = "A_nodesc" ->
            [type |-> "object",
             obj |-> [f \in Fields \ {"description"} |-> FullAnalysis[f]]]
      [] p = "A_nullcolor" ->
            [type |-> "object",
             obj |-> [FullAnalysis EXCEPT !.color = NULL]]
      [] p = "A_noname" ->
            [type |-> "object",
             obj |-> [f \in Fields \ {"product_name"} |-> FullAnalysis[f]]]
      [] p = "A_nullfeat" ->
            [type |-> "object",
             obj |-> [FullAnalysis EXCEPT !.key_features = NULL]]
      [] p = "A_list" -> [type |-> "array", items |-> <<"Mug">>]
      [] p = "P_notitle" ->
            [type |-> "object",
             obj |-> [prompts |-> <<[description |-> "shot 1"], Scene(2)>>]]
      [] p = "P_emptytitle" ->
            [type |-> "object",
             obj |-> [prompts |->
                        <<[title |-> "", description |-> "shot 1"]>>]]
      [] p = "P_nodesc" ->
            [type |-> "object",
             obj |-> [prompts |-> <<Scene(1), [title |-> "scene 2"]>>]]
      [] p = "P_nokey" ->
            [type |-> "object", obj |-> [scenes |-> Scenes(1)]]
      [] p = "P_list" -> [type |-> "array", items |-> Scenes(1)]
      [] OTHER ->
            LET k == CHOOSE j \in 0..MaxReplyItems : p = "P_" \o ToString(j)
            IN  [type |-> "object", obj |-> [prompts |-> Scenes(k)]]

\* json.loads: the text must be exactly one JSON payload
json_loads(t) ==
    IF Len(t) = 1 /\ t[1] \in AnalysisPayloads \cup PromptPayloads
    THEN [ok |-> TRUE, value |-> JsonTable(t[1])]
    ELSE [ok |-> FALSE, value |-> [type |-> "none"]]

\* the texts the vision model may reply with
AnalysisReplies ==
    UNION {Wrappings(p) : p \in AnalysisPayloads}
        \cup {<<JUNK>>, <<>>, <<FENCE, TAG, WS, JUNK, WS, FENCE>>,
              <<FENCE, WS, TAG, WS, "A_full", WS, FENCE>>}

\* the texts the text model may reply with
PromptReplies ==
    UNION {Wrappings(p) : p \in PromptPayloads}
        \cup {<<JUNK>>, <<>>, <<FENCE, TAG, WS, JUNK, WS, FENCE>>}

\* dict subscript d[k] on a parsed value: the exception it raises, if any
subscript_error(v, k) ==
    IF v.type # "object" THEN Exc("TypeError", "indices must be integers")
    ELSE IF k \notin DOMAIN v.obj THEN Exc("KeyError", k)
    ELSE NoExc

\* ', '.join(x): a string or a list joins, None does not
join_error(x) ==
    IF x = NULL THEN Exc("TypeError", "can only join an iterable") ELSE NoExc

(* ------------------------- stage computations ------------------------- *)

\* app.py:52 and 135
KeyMissingMsg == "GOOGLE_API_KEY is not set."

\* app.py:204
KeyMissingMsgEnv == "GOOGLE_API_KEY is not set. Check the .env file."

\* app.py:216
ClientInitMsg == "Cannot initialise the Gemini client: boom"

\* app.py:116-125: the record used when the reply is not JSON
fallback_analysis(text) ==
    [type |-> "object",
     obj |-> [product_name |-> "analysed product",
              category |-> "general product",
              key_features |-> "[quality, practical, stylish]",
              color |-> "various colours",
              style |-> "modern",
              target_audience |-> "general consumers",
              use_cases |-> "[daily use, gift, practical use]",
              description |-> Render(text)]]

\* app.py:98-127: what analyze_product_image returns for a reply text
parse_analysis(text) ==
    LET r == json_loads(strip_fences(text))
    IN  IF r.ok THEN r.value ELSE fallback_analysis(text)

\* app.py:142-165: the exception building the instruction raises, if any
prompt_build_error(a) ==
    LET e1 == subscript_error(a, "product_name")
        e2 == subscript_error(a, "category")
        e3 == subscript_error(a, "key_features")
        e5 == subscript_error(a, "style")
        e6 == subscript_error(a, "target_audience")
        e7 == subscript_error(a, "use_cases")
    IN  IF e1 # NoExc THEN e1
        ELSE IF e2 # NoExc THEN e2
        ELSE IF e3 # NoExc THEN e3
        ELSE IF join_error(a.obj.key_features) # NoExc
             THEN join_error(a.obj.key_features)
        ELSE IF e5 # NoExc THEN e5
        ELSE IF e6 # NoExc THEN e6
        ELSE IF e7 # NoExc THEN e7
        ELSE join_error(a.obj.use_cases)

\* app.py:192-195: range(num_images) placeholders
default_prompts(a, n) ==
    [i \in 1..Max(n, 0) |->
        [title |-> "usage scene " \o ToString(i),
         description |-> a.obj.product_name \o " in use"]]

\* app.py:177-195: what generate_image_prompts does with a reply text
parse_prompts(text, a, n) ==
    LET r == json_loads(strip_fences(text))
        e == subscript_error(r.value, "prompts")
    IN  IF ~r.ok THEN [exc |-> NoExc, value |-> default_prompts(a, n)]
        ELSE IF e.type = "KeyError"
             THEN [exc |-> NoExc, value |-> default_prompts(a, n)]
        ELSE IF e # NoExc THEN [exc |-> e, value |-> <<>>]
        ELSE [exc |-> NoExc, value |-> SliceTo(r.value.obj.prompts, n)]

(* ----------------------- image backend responses ---------------------- *)

\* finish reasons the backend reports
FinishReasons == {"STOP", "SAFETY"}

\* app.py:269  'SAFETY' in str(finish_reason)
is_safety(fr) == fr \in {"SAFETY", "IMAGE_SAFETY"}

TextPart == [has_inline |-> FALSE, is_bytes |-> FALSE, data |-> ""]

ImagePart == [has_inline |-> TRUE, is_bytes |-> TRUE, data |-> "PNG"]

NoContent == [present |-> FALSE, parts |-> <<>>]

Content(parts) == [present |-> TRUE, parts |-> parts]

Candidate(fr, c) == [finish_reason |-> fr, content |-> c]

\* the responses a generate_content call may return
BackendResponses ==
    {[candidates |-> <<>>]}
        \cup {[candidates |-> <<Candidate(fr, NoContent)>>] :
                fr \in FinishReasons}
        \cup {[candidates |-> <<Candidate(fr, Content(<<TextPart>>))>>] :
                fr \in FinishReasons}
        \cup {[candidates |-> <<Candidate("STOP", Content(<<>>))>>],
              [candidates |->
                 <<Candidate("STOP", Content(<<TextPart, ImagePart>>))>>]}

\* exceptions a call to the vision or the text model may raise
ApiErrors ==
    {Exc("ConnectionError", "network down"), Exc("ValueError", "bad request")}

\* exceptions a call to the image backend may raise
BackendErrors == {Exc("ConnectionError", "network down")}

\* base64.b64encode(data).decode('utf-8')
b64encode(data) == IF data = "PNG" THEN "UE5H" ELSE "<b64:" \o data \o ">"

\* app.py:270
SafetyMsg == "Blocked by the safety filter. Please revise the prompt."

\* app.py:265
NoContentMsg(fr) == "No content was generated. Finish reason: " \o fr

\* app.py:322
NoImageDataMsg == "Image generation failed. (no image data)"

\* app.py:332
NoResponseMsg == "Image generation failed. (no response)"

\* app.py:351
ExceptionMsg(e) == e.type \o ": " \o e.msg

error_info(i, pd, msg) ==
    [id |-> i + 1, title |-> pd.title, prompt |-> pd.description,
     status |-> "error", message |-> msg]

RECURSIVE first_inline(_)
\* app.py:283-288: the data of the first part that carries inline data
first_inline(parts) ==
    IF parts = <<>> THEN [found |-> FALSE, part |-> TextPart]
    ELSE IF Head(parts).has_inline /\ Head(parts).data # ""
         THEN [found |-> TRUE, part |-> Head(parts)]
    ELSE first_inline(Tail(parts))

\* app.py:250-334: the result appended for item i when the call returned r
image_info_for(i, pd, r) ==
    IF r.candidates = <<>> THEN error_info(i, pd, NoResponseMsg)
    ELSE LET candidate == r.candidates[1]
             finish_reason == candidate.finish_reason
             img == first_inline(candidate.content.parts)
         IN  IF ~candidate.content.present
             THEN error_info(i, pd,
                             IF is_safety(finish_reason) THEN SafetyMsg
                             ELSE NoContentMsg(finish_reason))
             ELSE IF img.found
             THEN [id |-> i + 1, title |-> pd.title,
                   prompt |-> pd.description, status |-> "ok",
                   type |-> "base64",
                   data |-> "data:image/png;base64," \o
                            (IF img.part.is_bytes THEN b64encode(img.part.data)
                             ELSE img.part.data)]
             ELSE error_info(i, pd, NoImageDataMsg)

\* app.py:336-353: the result appended for item i when the call raised e
image_info_raised(i, pd, e) == error_info(i, pd, ExceptionMsg(e))

(* ------------------------------- state -------------------------------- *)

VARIABLES
    GOOGLE_API_KEY,     \* app.py:36   TRUE iff the key is a non-empty string
    entry,              \* the operation invoked: the route or one stage
    request,            \* app.py:402  the JSON body of the /generate request
    image_ok,           \* whether Image.open succeeds on the uploaded file
    pc,                 \* position in the code
    num_images,         \* app.py:404 / the num_images argument
    analysis,           \* app.py:417 / the analysis argument
    prompts,            \* app.py:422 / the prompts argument
    api_response,       \* the local `response` of the running stage
    generated_images,   \* app.py:208
    idx,                \* app.py:227  0-based loop index
    calls,              \* the external operations performed so far, in order
    raised,             \* the exception that left a stage, and the stage
    response,           \* the HTTP response of the route
    ret                 \* how a directly invoked stage ended

vars ==
    <<GOOGLE_API_KEY, entry, request, image_ok, pc, num_images, analysis,
      prompts, api_response, generated_images, idx, calls, raised, response,
      ret>>

None == [type |-> "none"]

NoResponse == [status |-> 0, body |-> [none |-> TRUE]]

NotRaised == [stage |-> "", exc |-> NoExc]

Route == "generate_images"

Stages ==
    {"analyze_product_image", "generate_image_prompts",
     "generate_images_with_gemini"}

\* num_images values a caller supplies
Requested == -1..MaxRequested

\* prompt lists a direct caller of generate_images_with_gemini supplies
DirectPrompts ==
    {Scenes(k) : k \in 0..2}
        \cup {<<[description |-> "shot 1"], Scene(2)>>,
              <<Scene(1), [title |-> "scene 2"]>>}

\* analysis values a direct caller of generate_image_prompts supplies: the
\* objects analyze_product_image can hand to the route
DirectAnalyses ==
    {JsonTable(p) : p \in {"A_full", "A_noname", "A_nullfeat"}}

Event(stage, ev, id) == [stage |-> stage, ev |-> ev, id |-> id]

Init ==
    /\ GOOGLE_API_KEY \in BOOLEAN
    /\ image_ok \in BOOLEAN
    /\ entry \in {Route} \cup Stages
    /\ api_response = None
    /\ generated_images = <<>>
    /\ idx = 0
    /\ calls = <<>>
    /\ raised = NotRaised
    /\ response = NoResponse
    /\ ret = "running"
    /\ \/ /\ entry = Route
          /\ request \in [filename : BOOLEAN, num_images : Requested]
          /\ pc = "request"
          /\ num_images = 0
          /\ analysis = None
          /\ prompts = <<>>
       \/ /\ entry = "analyze_product_image"
          /\ request = [filename |-> TRUE, num_images |-> 0]
          /\ pc = "analyze"
          /\ num_images = 0
          /\ analysis = None
          /\ prompts = <<>>
       \/ /\ entry = "generate_image_prompts"
          /\ request = [filename |-> TRUE, num_images |-> 0]
          /\ pc = "prompts"
          /\ num_images \in Requested
          /\ analysis \in DirectAnalyses
          /\ prompts = <<>>
       \/ /\ entry = "generate_images_with_gemini"
          /\ image_ok     \* the file analyze_product_image has opened
          /\ request = [filename |-> TRUE, num_images |-> 0]
          /\ pc = "gemini"
          /\ num_images = 0
          /\ analysis = JsonTable("A_full")
          /\ prompts \in DirectPrompts

(* ------------------------ control-flow helpers ------------------------ *)

\* app.py:437-452: the route's two except clauses
except_handler(e) ==
    IF IsValueError(e.type)
    THEN [status |-> 500,
          body |-> [error |-> "Configuration error: " \o e.msg]]
    ELSE [status |-> 500,
          body |-> [error |-> "Error during image generation: " \o e.msg,
                    error_type |-> e.type,
                    error_details |-> e.msg]]

\* exception e leaves the given stage: the route's try catches it, a direct
\* caller sees it; the locals of the stage are gone
Raise(stage, e) ==
    /\ pc' = "done"
    /\ raised' = [stage |-> stage, exc |-> e]
    /\ api_response' = None
    /\ IF entry = Route
       THEN response' = except_handler(e) /\ ret' = ret
       ELSE response' = response /\ ret' = "raised"

\* the running stage returns: the route goes on at next, a direct caller is
\* done; the locals of the stage are gone
Return(next) ==
    /\ response' = response
    /\ raised' = raised
    /\ api_response' = None
    /\ IF entry = Route
       THEN pc' = next /\ ret' = ret
       ELSE pc' = "done" /\ ret' = "returned"

\* the running stage moves on to position next
Goto(next) ==
    /\ pc' = next
    /\ UNCHANGED <<raised, response, ret>>

(* ------------------------------ actions ------------------------------- *)

\* app.py:402-413
generate_images_request ==
    /\ pc = "request"
    /\ num_images' = Min(request.num_images, MaxImages)
    /\ IF ~request.filename
       THEN /\ response' = [status |-> 400,
                            body |-> [error |-> "A file name is required."]]
            /\ pc' = "done"
       ELSE /\ response' = response
            /\ pc' = "analyze"
    /\ UNCHANGED <<GOOGLE_API_KEY, entry, request, image_ok, analysis, prompts,
                   api_response, generated_images, idx, calls, raised, ret>>

\* analyze_product_image_begin with the image opened before the key is checked
analyze_product_image_begin_open_first ==
    /\ pc = "analyze"
    /\ IF ~image_ok
       THEN /\ Raise("analysis", Exc("FileNotFoundError", "cannot open image"))
            /\ calls' = Append(calls, Event("analysis", "open", 0))
       ELSE IF ~GOOGLE_API_KEY
       THEN /\ Raise("analysis", Exc("ValueError", KeyMissingMsg))
            /\ calls' = Append(calls, Event("analysis", "open", 0))
       ELSE /\ Goto("analyze_call")
            /\ calls' = calls \o <<Event("analysis", "open", 0),
                                   Event("analysis", "call", 0)>>
            /\ api_response' = api_response
    /\ UNCHANGED <<GOOGLE_API_KEY, entry, request, image_ok, num_images,
                   analysis, prompts, generated_images, idx>>

\* app.py:51-90: key check, Image.open, and the vision call being issued
analyze_product_image_begin ==
    /\ pc = "analyze"
    /\ IF ~GOOGLE_API_KEY
       THEN /\ Raise("analysis", Exc("ValueError", KeyMissingMsg))
            /\ calls' = calls
       ELSE IF ~image_ok
       THEN /\ Raise("analysis", Exc("FileNotFoundError", "cannot open image"))
            /\ calls' = Append(calls, Event("analysis", "open", 0))
       ELSE /\ Goto("analyze_call")
            /\ calls' = calls \o <<Event("analysis", "open", 0),
                                   Event("analysis", "call", 0)>>
            /\ api_response' = api_response
    /\ UNCHANGED <<GOOGLE_API_KEY, entry, request, image_ok, num_images,
                   analysis, prompts, generated_images, idx>>

\* app.py:90-96: the vision call raises
analyze_product_image_raise ==
    /\ pc = "analyze_call"
    /\ \E e \in ApiErrors :
        /\ Raise("analysis", e)
        /\ calls' = Append(calls, Event("analysis", "raise", 0))
    /\ UNCHANGED <<GOOGLE_API_KEY, entry, request, image_ok, num_images,
                   analysis, prompts, generated_images, idx>>

\* app.py:90-91: the vision call returns a text
analyze_product_image_reply ==
    /\ pc = "analyze_call"
    /\ \E text \in AnalysisReplies : api_response' = [text |-> text]
    /\ calls' = Append(calls, Event("analysis", "return", 0))
    /\ Goto("analyze_parse")
    /\ UNCHANGED <<GOOGLE_API_KEY, entry, request, image_ok, num_images,
                   analysis, prompts, generated_images, idx>>

\* app.py:98-127: the text is parsed and the record returned
analyze_product_image_parse ==
    /\ pc = "analyze_parse"
    /\ analysis' = parse_analysis(api_response.text)
    /\ Return("after_analysis")
    /\ UNCHANGED <<GOOGLE_API_KEY, entry, request, image_ok, num_images,
                   prompts, generated_images, idx, calls>>

\* app.py:418  analysis.get('product_name', 'Unknown')
generate_images_after_analysis ==
    /\ pc = "after_analysis"
    /\ IF analysis.type # "object"
       THEN Raise("route", Exc("AttributeError", "object has no attribute get"))
       ELSE Goto("prompts") /\ api_response' = api_response
    /\ UNCHANGED <<GOOGLE_API_KEY, entry, request, image_ok, num_images,
                   analysis, prompts, generated_images, idx, calls>>

\* app.py:134-169: key check, instruction built, and the text call issued
generate_image_prompts_begin ==
    /\ pc = "prompts"
    /\ IF ~GOOGLE_API_KEY
       THEN /\ Raise("synthesis", Exc("ValueError", KeyMissingMsg))
            /\ calls' = calls
       ELSE IF prompt_build_error(analysis) # NoExc
       THEN /\ Raise("synthesis", prompt_build_error(analysis))
            /\ calls' = calls
       ELSE /\ Goto("prompts_call")
            /\ calls' = Append(calls, Event("synthesis", "call", 0))
            /\ api_response' = api_response
    /\ UNCHANGED <<GOOGLE_API_KEY, entry, request, image_ok, num_images,
                   analysis, prompts, generated_images, idx>>

\* generate_image_prompts_raise with the failure of the call handled like a
\* parse failure: the placeholders are returned and the pipeline goes on
generate_image_prompts_raise_swallowed ==
    /\ pc = "prompts_call"
    /\ \E e \in ApiErrors :
        /\ Return("gemini")
        /\ calls' = Append(calls, Event("synthesis", "raise", 0))
    /\ UNCHANGED <<GOOGLE_API_KEY, entry, request, image_ok, num_images,
                   analysis, prompts, generated_images, idx>>

\* app.py:169-175: the text call raises
generate_image_prompts_raise ==
    /\ pc = "prompts_call"
    /\ \E e \in ApiErrors :
        /\ Raise("synthesis", e)
        /\ calls' = Append(calls, Event("synthesis", "raise", 0))
    /\ UNCHANGED <<GOOGLE_API_KEY, entry, request, image_ok, num_images,
                   analysis, prompts, generated_images, idx>>

\* app.py:169-170: the text call returns a text
generate_image_prompts_reply ==
    /\ pc = "prompts_call"
    /\ \E text \in PromptReplies : api_response' = [text |-> text]
    /\ calls' = Append(calls, Event("synthesis", "return", 0))
    /\ Goto("prompts_parse")
    /\ UNCHANGED <<GOOGLE_API_KEY, entry, request, image_ok, num_images,
                   analysis, prompts, generated_images, idx>>

\* app.py:177-195: the text is parsed and the prompts returned
generate_image_prompts_parse ==
    /\ pc = "prompts_parse"
    /\ LET r == parse_prompts(api_response.text, analysis, num_images)
       IN  IF r.exc # NoExc
           THEN Raise("synthesis", r.exc) /\ prompts' = prompts
           ELSE Return("gemini") /\ prompts' = r.value
    /\ UNCHANGED <<GOOGLE_API_KEY, entry, request, image_ok, num_images,
                   analysis, generated_images, idx, calls>>

\* app.py:203-226: key check, client construction, reference image opened
generate_images_with_gemini_begin ==
    /\ pc = "gemini"
    /\ \E client_ok \in BOOLEAN :
        IF ~GOOGLE_API_KEY
        THEN /\ Raise("generation", Exc("ValueError", KeyMissingMsgEnv))
             /\ UNCHANGED <<calls, generated_images, idx>>
        ELSE IF ~client_ok
        THEN /\ Raise("generation", Exc("ValueError", ClientInitMsg))
             /\ UNCHANGED <<calls, generated_images, idx>>
        ELSE IF ~image_ok
        THEN /\ Raise("generation",
                      Exc("FileNotFoundError", "cannot open image"))
             /\ calls' = Append(calls, Event("generation", "open", 0))
             /\ UNCHANGED <<generated_images, idx>>
        ELSE /\ Goto("gemini_loop")
             /\ calls' = Append(calls, Event("generation", "open", 0))
             /\ generated_images' = <<>>
             /\ idx' = 0
             /\ api_response' = api_response
    /\ UNCHANGED <<GOOGLE_API_KEY, entry, request, image_ok, num_images,
                   analysis, prompts>>

\* a subscript of prompt_data the loop body and the except clause both use
item_key_error(pd) ==
    IF "title" \notin DOMAIN pd THEN Exc("KeyError", "title")
    ELSE IF "description" \notin DOMAIN pd THEN Exc("KeyError", "description")
    ELSE NoExc

\* app.py:227-246: the loop takes the next prompt and issues its call; a
\* prompt without title or description raises KeyError inside the try
\* (230-231) and again inside the except clause (348-349), which nothing
\* catches
generate_images_with_gemini_call ==
    /\ pc = "gemini_loop"
    /\ idx < Len(prompts)
    /\ LET prompt_data == prompts[idx + 1]
       IN  IF item_key_error(prompt_data) # NoExc
           THEN /\ Raise("generation", item_key_error(prompt_data))
                /\ calls' = calls
           ELSE /\ Goto("gemini_call")
                /\ calls' = Append(calls, Event("generation", "call", idx + 1))
                /\ api_response' = api_response
    /\ UNCHANGED <<GOOGLE_API_KEY, entry, request, image_ok, num_images,
                   analysis, prompts, generated_images, idx>>

\* generate_images_with_gemini_reply with the `continue` of the no-content
\* branch taken before the append
generate_images_with_gemini_reply_skip ==
    /\ pc = "gemini_call"
    /\ \E r \in BackendResponses :
        /\ api_response' = r
        /\ generated_images' =
            IF r.candidates # <<>> /\ ~r.candidates[1].content.present
            THEN generated_images
            ELSE Append(generated_images,
                        image_info_for(idx, prompts[idx + 1], r))
    /\ calls' = Append(calls, Event("generation", "return", idx + 1))
    /\ idx' = idx + 1
    /\ Goto("gemini_loop")
    /\ UNCHANGED <<GOOGLE_API_KEY, entry, request, image_ok, num_images,
                   analysis, prompts>>

\* app.py:235-334: the call returns and its response is classified
generate_images_with_gemini_reply ==
    /\ pc = "gemini_call"
    /\ \E r \in BackendResponses :
        /\ api_response' = r
        /\ generated_images' =
            Append(generated_images, image_info_for(idx, prompts[idx + 1], r))
    /\ calls' = Append(calls, Event("generation", "return", idx + 1))
    /\ idx' = idx + 1
    /\ Goto("gemini_loop")
    /\ UNCHANGED <<GOOGLE_API_KEY, entry, request, image_ok, num_images,
                   analysis, prompts>>

\* app.py:336-353: the call raises and the except clause records it; the
\* local `response` keeps the value of the previous iteration
generate_images_with_gemini_raise ==
    /\ pc = "gemini_call"
    /\ \E e \in BackendErrors :
        generated_images' =
            Append(generated_images,
                   image_info_raised(idx, prompts[idx + 1], e))
    /\ calls' = Append(calls, Event("generation", "raise", idx + 1))
    /\ idx' = idx + 1
    /\ Goto("gemini_loop")
    /\ UNCHANGED <<GOOGLE_API_KEY, entry, request, image_ok, num_images,
                   analysis, prompts, api_response>>

\* app.py:355: the loop is over and the list is returned
generate_images_with_gemini_return ==
    /\ pc = "gemini_loop"
    /\ idx = Len(prompts)
    /\ Return("respond")
    /\ UNCHANGED <<GOOGLE_API_KEY, entry, request, image_ok, num_images,
                   analysis, prompts, generated_images, idx, calls>>

\* app.py:428-435: the success envelope
generate_images_respond ==
    /\ pc = "respond"
    /\ response' = [status |-> 200,
                    body |-> [success |-> TRUE,
                              analysis |-> analysis.obj,
                              generated_images |-> generated_images]]
    /\ pc' = "done"
    /\ UNCHANGED <<GOOGLE_API_KEY, entry, request, image_ok, num_images,
                   analysis, prompts, api_response, generated_images, idx,
                   calls, raised, ret>>

Next ==
    \/ generate_images_request
    \/ analyze_product_image_begin
    \/ analyze_product_image_raise
    \/ analyze_product_image_reply
    \/ analyze_product_image_parse
    \/ generate_images_after_analysis
    \/ generate_image_prompts_begin
    \/ generate_image_prompts_raise
    \/ generate_image_prompts_reply
    \/ generate_image_prompts_parse
    \/ generate_images_with_gemini_begin
    \/ generate_images_with_gemini_call
    \/ generate_images_with_gemini_reply
    \/ generate_images_with_gemini_raise
    \/ generate_images_with_gemini_return
    \/ generate_images_respond

Spec == Init /\ [][Next]_vars

(* ------------------------- observation helpers ------------------------ *)

IsEv(j, stage, ev) == calls[j].stage = stage /\ calls[j].ev = ev

StageEvents(stage) == {j \in 1..Len(calls) : calls[j].stage = stage}

LastEvent == calls[Len(calls)]

\* generate_images_with_gemini has returned its list
gemini_returned ==
    \/ entry = Route /\ pc = "respond"
    \/ entry = Route /\ pc = "done" /\ response.status = 200
    \/ entry = "generate_images_with_gemini" /\ ret = "returned"

\* analyze_product_image has returned its record
analysis_returned ==
    \/ entry = Route /\ pc = "after_analysis"
    \/ entry = "analyze_product_image" /\ ret = "returned"

\* generate_image_prompts has ended, by return or by exception, after its
\* text call succeeded
prompts_ended_after_reply ==
    /\ \E j \in 1..Len(calls) : IsEv(j, "synthesis", "return")
    /\ pc # "prompts_parse"

(* ------------------------------- claims ------------------------------- *)

\* C1: whenever generate_images_with_gemini returns, the list has one entry
\* per prompt, entry i (1-based here) has id i, and its title and prompt are
\* the title and description of prompt i.
C1_OneResultPerPrompt ==
    gemini_returned =>
        /\ Len(generated_images) = Len(prompts)
        /\ \A i \in 1..Len(prompts) :
            /\ generated_images[i].id = i
            /\ generated_images[i].title = prompts[i].title
            /\ generated_images[i].prompt = prompts[i].description

\* a returned batch of at least three items holding an image, a recorded
\* exception and a missing-content failure
C1_Witness ==
    /\ gemini_returned
    /\ Len(prompts) >= 3
    /\ \E i, j, k \in 1..Len(generated_images) :
        /\ generated_images[i].status = "ok"
        /\ generated_images[j].status = "error"
        /\ generated_images[j].message \in {ExceptionMsg(e) : e \in BackendErrors}
        /\ generated_images[k].status = "error"
        /\ generated_images[k].message = NoContentMsg("STOP")

\* C2: generate_images_with_gemini always returns its list; the one
\* exception that leaves it is the configuration error (ValueError) of a
\* backend that is not configured, raised before anything is done for any
\* item.
C2_Total ==
    raised.stage = "generation" =>
        /\ raised.exc.type = "ValueError"
        /\ StageEvents("generation") = {}

\* C3: once the text call has succeeded, generate_image_prompts returns
\* exactly num_images items, each with a non-empty title, for num_images in
\* 1..10.
C3_ExactCount ==
    (prompts_ended_after_reply /\ num_images \in 1..MaxImages
        /\ entry \in {Route, "generate_image_prompts"}) =>
        /\ raised.stage # "synthesis"
        /\ Len(prompts) = num_images
        /\ \A i \in 1..Len(prompts) :
            "title" \in DOMAIN prompts[i] /\ prompts[i].title # ""

\* C4: the count the route passes to generate_image_prompts lies in 1..10.
C4_Clamped ==
    (entry = Route /\ pc \in {"prompts", "prompts_call", "prompts_parse"}) =>
        num_images \in 1..MaxImages

\* C5: the record analyze_product_image returns carries all 8 fields, none
\* of them null.
C5_AllFields ==
    analysis_returned =>
        /\ analysis.type = "object"
        /\ \A f \in Fields :
            f \in DOMAIN analysis.obj /\ analysis.obj[f] # NULL

\* the reply does not parse, or parses to a value without the prompts key
needs_fallback(text) ==
    LET r == json_loads(strip_fences(text))
    IN  \/ ~r.ok
        \/ r.value.type # "object"
        \/ "prompts" \notin DOMAIN r.value.obj

\* C6: when the reply of the text call does not parse or does not carry the
\* prompts key, generate_image_prompts raises nothing and returns num_images
\* placeholders titled 1..num_images in order.
C6_Fallback ==
    [][(pc = "prompts_parse" /\ num_images >= 0
            /\ needs_fallback(api_response.text)) =>
        /\ raised' = raised
        /\ Len(prompts') = num_images
        /\ \A i \in 1..num_images :
            prompts'[i].title = "usage scene " \o ToString(i)]_vars

\* the response just classified reports a safety finish reason and carries
\* no image
safety_blocked_item ==
    /\ pc = "gemini_loop"
    /\ idx >= 1
    /\ LastEvent = Event("generation", "return", idx)
    /\ api_response.candidates # <<>>
    /\ is_safety(api_response.candidates[1].finish_reason)
    /\ ~first_inline(api_response.candidates[1].content.parts).found

\* C7: an item whose response reports a safety finish reason, with no content
\* or with content but no image part, gets status error and the safety
\* message.
C7_SafetyMessage ==
    safety_blocked_item =>
        /\ generated_images[idx].status = "error"
        /\ generated_images[idx].message = SafetyMsg

\* C8: in a request the synthesis call follows a successful analysis call, a
\* generation call follows a successful synthesis call, the generation calls
\* are issued in prompt order each after the previous one has returned or
\* raised, and a failed analysis or synthesis is followed by no later stage.
C8_StrictOrder ==
    /\ \A j \in 1..Len(calls) :
        /\ (calls[j].ev = "call" /\ j < Len(calls)) =>
              /\ calls[j + 1].stage = calls[j].stage
              /\ calls[j + 1].id = calls[j].id
              /\ calls[j + 1].ev \in {"return", "raise"}
        /\ IsEv(j, "generation", "call") =>
              /\ calls[j].id =
                    1 + Cardinality({i \in 1..(j - 1) :
                                        IsEv(i, "generation", "call")})
              /\ calls[j].id > 1 =>
                    /\ calls[j - 1].stage = "generation"
                    /\ calls[j - 1].id = calls[j].id - 1
                    /\ calls[j - 1].ev \in {"return", "raise"}
        /\ (entry = Route /\ IsEv(j, "synthesis", "call")) =>
              \E i \in 1..(j - 1) : IsEv(i, "analysis", "return")
        /\ (entry = Route /\ IsEv(j, "generation", "call")) =>
              \E i \in 1..(j - 1) : IsEv(i, "synthesis", "return")
        /\ IsEv(j, "analysis", "raise") =>
              StageEvents("synthesis") \cup StageEvents("generation") = {}
        /\ IsEv(j, "synthesis", "raise") => StageEvents("generation") = {}
    /\ raised.stage = "analysis" =>
          StageEvents("synthesis") \cup StageEvents("generation") = {}
    /\ raised.stage = "synthesis" => StageEvents("generation") = {}

\* a request answered with 200 whose first generation call raised and whose
\* second one was issued afterwards
C8_Witness ==
    /\ entry = Route
    /\ pc = "done"
    /\ response.status = 200
    /\ \E j \in 1..Len(calls) :
        /\ IsEv(j, "generation", "raise")
        /\ calls[j].id = 1
        /\ j < Len(calls)
        /\ calls[j + 1] = Event("generation", "call", 2)

\* C9: a request whose analysis or synthesis call raised ends with a 500
\* error object carrying the message and the type of the exception and no
\* generated_images; a request in which only items failed ends with the
\* success envelope holding one entry per prompt.
C9_ErrorEnvelope ==
    (entry = Route /\ pc = "done" /\ request.filename) =>
        /\ (calls # <<>> /\ LastEvent.ev = "raise"
                /\ LastEvent.stage \in {"analysis", "synthesis"}) =>
              /\ response.status = 500
              /\ "error_type" \in DOMAIN response.body
              /\ response.body.error_type = raised.exc.type
              /\ response.body.error_details = raised.exc.msg
              /\ "generated_images" \notin DOMAIN response.body
        /\ raised = NotRaised =>
              /\ response.status = 200
              /\ Len(response.body.generated_images) = Len(prompts)

====
